---- MODULE Spec2Model ----
(***************************************************************************)
(* A model of the medici double-entry ledger: the Book facade              *)
(* (src/src/Book.ts), the query compiler (helper/parseQuery.ts) and the    *)
(* document store they drive.  Entry.commit, Journal.void, the snapshot    *)
(* model (getBestSnapshot / snapshotBalance), parseAccountField,           *)
(* parseDateField and the key predicates live in files that are not under  *)
(* src/; they are modelled from the specification text.                    *)
(*                                                                         *)
(* Conventions.  An account string "A:B:C" is the sequence of its segments *)
(* <<"A","B","C">> (split(":") and join(":") are inverse on segments that  *)
(* hold no colon); PathStr renders it back where the code needs the        *)
(* string.  Amounts are integers counted in fractions 1/Unit of the book's *)
(* smallest amount 10^-precision.  Object identifiers are the values of a  *)
(* counter the store increments.  Time is counted in seconds.              *)
(***************************************************************************)
EXTENDS Integers, Sequences, FiniteSets, TLC

\* sess[s].overlapped is history: the lock documents of the store transactions
\* that committed while the session's own was open.
VARIABLES
  transactions,  \* the transactions collection: the committed documents
  journals,      \* the journals collection: the committed documents
  balances,      \* the balances collection: the snapshot documents
  locks,         \* the locks collection: PathStr(account) -> revision (__v)
  nextId,        \* the next object identifier the store hands out
  now,           \* the wall clock, in seconds
  sess,          \* per session: the store transaction in flight
  ret            \* what the last Book.balance / Book.ledger call returned

vars == <<transactions, journals, balances, locks, nextId, now, sess, ret>>

(***************************************************************************)
(* Bounds of the model.                                                    *)
(***************************************************************************)
MaxJournals == 2   \* journals written in one run (entries and reversals)
MaxNow == 2        \* the clock stops here
Unit == 2          \* amount steps per 10^-precision
\* identifiers handed out in one run: a journal's and its two postings'
MaxId == 3 * MaxJournals

Sessions == {"s1", "s2"}
SeqSessions == {"s1"}

Undefined == "undefined"

(***************************************************************************)
(* Books.  A book is what the constructor keeps: name, maxAccountPath,     *)
(* balanceSnapshotSec (precision is carried by Unit).                      *)
(***************************************************************************)
Book(name, maxAccountPath, balanceSnapshotSec) ==
  [name |-> name, maxAccountPath |-> maxAccountPath,
   balanceSnapshotSec |-> balanceSnapshotSec]

\* the books of the runs: paths of two segments, snapshots good for a second
MainBook == Book("b1", 2, 1)
OtherBook == Book("b2", 2, 1)

(***************************************************************************)
(* Generic helpers.                                                        *)
(***************************************************************************)
RECURSIVE SumOver(_)
\* the sum of credit - debit over a set of transaction documents
SumOver(S) ==
  IF S = {} THEN 0
  ELSE LET t == CHOOSE x \in S : TRUE
       IN (t.credit - t.debit) + SumOver(S \ {t})

RECURSIVE PathStr(_)
\* segments.join(":")
PathStr(p) ==
  IF Len(p) = 0 THEN ""
  ELSE IF Len(p) = 1 THEN p[1]
  ELSE p[1] \o ":" \o PathStr(Tail(p))

RECURSIVE JoinComma(_)
\* Array.prototype.join() of a list of account strings: comma separated
JoinComma(ps) ==
  IF Len(ps) = 0 THEN ""
  ELSE IF Len(ps) = 1 THEN PathStr(ps[1])
  ELSE PathStr(ps[1]) \o "," \o JoinComma(Tail(ps))

\* the accounts array of a posting: every prefix of its path
Prefixes(p) == {SubSeq(p, 1, i) : i \in 1..Len(p)}

SeqToSet(s) == {s[i] : i \in DOMAIN s}

Abs(x) == IF x < 0 THEN -x ELSE x

\* parseFloat(x.toFixed(precision)): the nearest multiple of 10^-precision,
\* a tie going away from zero
Round(x) ==
  LET a == Abs(x)
      r == ((2 * a + Unit) \div (2 * Unit)) * Unit
  IN IF x < 0 THEN -r ELSE r

(***************************************************************************)
(* Queries (IParseQuery).  account is absent, one string or a list of      *)
(* strings; a date is absent, a native Date, a date string or an epoch     *)
(* number; extra maps the remaining keys of the query object to values.    *)
(***************************************************************************)
NoAccount == [kind |-> "none", paths |-> <<>>]
AccStr(p) == [kind |-> "str", paths |-> <<p>>]
AccArr(ps) == [kind |-> "arr", paths |-> ps]

NoDate == [form |-> "absent", ms |-> 0]
DateOf(form, ms) == [form |-> form, ms |-> ms]

NoExtra == [k \in {} |-> 0]
NoMeta == [k \in {} |-> ""]

Query(account, start_date, end_date, extra) ==
  [account |-> account, start_date |-> start_date, end_date |-> end_date,
   extra |-> extra]

\* JavaScript truthiness of query.account: undefined and "" are falsy, every
\* array is truthy
AccountTruthy(account) ==
  \/ account.kind = "arr"
  \/ account.kind = "str" /\ account.paths[1] # <<"">>

\* JavaScript truthiness of a date input: undefined, 0 and "" are falsy
DateTruthy(d) ==
  /\ d.form # "absent"
  /\ ~(d.form = "number" /\ d.ms = 0)

\* parseDateField: the instant a Date, a date string or an epoch number denotes
parseDateField(d) == d.ms

\* isPrototypeAttribute: the intrinsic members of the base object
isPrototypeAttribute(key) == key \in {"__proto__", "constructor", "prototype"}

\* the closed set of transaction columns
TransactionKeys ==
  {"_id", "credit", "debit", "meta", "datetime", "account_path", "accounts",
   "book", "memo", "_journal", "timestamp", "voided", "void_reason",
   "_original_journal"}

isValidTransactionKey(key) == key \in TransactionKeys

isTransactionObjectIdKey(key) == key \in {"_id", "_journal", "_original_journal"}

\* An identifier n travels either as an ObjectId, n itself, or as its hex
\* string, written -n here; new Types.ObjectId(string) reads the string.
IsIdString(value) == value < 0
ObjectId(value) == -value

\* parseAccountField(account, maxAccountPath): equality on account_path when
\* every entry has exactly maxAccountPath segments, membership in accounts
\* otherwise; several accounts make a disjunction.  No account, no predicate.
parseAccountField(account, maxAccountPath) ==
  LET ps == account.paths
      allFull == \A i \in DOMAIN ps : Len(ps[i]) = maxAccountPath
      field == IF allFull THEN "account_path" ELSE "accounts"
  IN IF account.kind = "none" \/ Len(ps) = 0 THEN [k \in {} |-> 0]
     ELSE IF Len(ps) = 1 THEN field :> ps[1]
     ELSE "$or" :> [i \in DOMAIN ps |-> [field |-> field, value |-> ps[i]]]

\* lines 36-45: the datetime range
DateFilterFor(start_date, end_date) ==
  IF DateTruthy(start_date) \/ DateTruthy(end_date)
  THEN "datetime" :>
         [hasGte |-> DateTruthy(start_date),
          gte |-> IF DateTruthy(start_date) THEN parseDateField(start_date) ELSE 0,
          hasLte |-> DateTruthy(end_date),
          lte |-> IF DateTruthy(end_date) THEN parseDateField(end_date) ELSE 0]
  ELSE [k \in {} |-> 0]

\* lines 50-53: a string under an identifier column becomes an ObjectId
CoerceValue(key, value) ==
  IF isTransactionObjectIdKey(key) /\ IsIdString(value) THEN ObjectId(value)
  ELSE value

\* lines 47-61: the extra keys.  A recognized column goes to the top level (and
\* replaces what is there), any other key goes under meta.
ExtraFilterFor(extra) ==
  LET keys == {k \in DOMAIN extra : ~isPrototypeAttribute(k)}
      topKeys == {k \in keys : isValidTransactionKey(k)}
      metaKeys == keys \ topKeys
      top == [k \in topKeys |-> CoerceValue(k, extra[k])]
  IN IF metaKeys = {} THEN top
     ELSE top @@ ("meta" :> [k \in metaKeys |-> extra[k]])

\* parseQuery with the account predicate left out of the filter (line 33)
parseQueryWithoutAccount(query, book) ==
  ExtraFilterFor(query.extra)
    @@ DateFilterFor(query.start_date, query.end_date)
    @@ ("book" :> book.name)

\* parseQuery(query, book): the filter document, a map from field to predicate.
\* Later assignments replace earlier ones, so the extra keys win over the
\* date range, which wins over book and the account predicate.
parseQuery(query, book) ==
  ExtraFilterFor(query.extra)
    @@ DateFilterFor(query.start_date, query.end_date)
    @@ parseAccountField(query.account, book.maxAccountPath)
    @@ ("book" :> book.name)

FilterMeta(filter) == IF "meta" \in DOMAIN filter THEN filter["meta"] ELSE NoMeta
HasMeta(filter) == "meta" \in DOMAIN filter

(***************************************************************************)
(* The store's matching of one transaction document against a filter.      *)
(***************************************************************************)
MatchAccount(t, field, value) ==
  IF field = "account_path" THEN t.account_path = value
  ELSE value \in Prefixes(t.account_path)

MatchField(t, k, v) ==
  CASE k = "book" -> t.book = v
    [] k = "account_path" -> MatchAccount(t, k, v)
    [] k = "accounts" -> MatchAccount(t, k, v)
    [] k = "$or" -> \E i \in DOMAIN v : MatchAccount(t, v[i].field, v[i].value)
    [] k = "datetime" -> /\ v.hasGte => t.datetime >= v.gte
                         /\ v.hasLte => t.datetime <= v.lte
    [] k = "_journal" -> t._journal = v
    [] k = "_original_journal" -> t._original_journal = v
    [] k = "voided" -> t.voided = v
    [] k = "meta" -> t.meta = v
    [] k = "_id" -> t._id > v
    [] OTHER -> FALSE

Matches(t, filter) == \A k \in DOMAIN filter : MatchField(t, k, filter[k])

\* transactionModel.find / $match over the committed documents
Select(filter) == {t \in transactions : Matches(t, filter)}

(***************************************************************************)
(* The snapshot model (models/balance).                                    *)
(***************************************************************************)
SnapshotKey(book, account, meta) ==
  [book |-> book, account |-> account, meta |-> meta]

KeyOf(s) == SnapshotKey(s.book, s.account, s.meta)

\* getBestSnapshot: among the snapshots of the key, the one with the largest
\* transaction identifier (the youngest of them, should two share it); the
\* empty set when the key has none
getBestSnapshot(key) ==
  LET mine == {s \in balances : KeyOf(s) = key}
      top == {s \in mine : \A o \in mine : o.transaction <= s.transaction}
      young == {s \in top : \A o \in top : o.createdAt <= s.createdAt}
  IN IF mine = {} THEN {} ELSE {CHOOSE s \in young : TRUE}

\* snapshotBalance: the document insertOne writes; createdAt is the clock and
\* expireAt lies expireInSec later
snapshotBalance(book, account, meta, transaction, timestamp, balance, expireInSec) ==
  [book |-> book, account |-> account, meta |-> meta,
   transaction |-> transaction, timestamp |-> timestamp, balance |-> balance,
   createdAt |-> now, expireAt |-> now + expireInSec]

(***************************************************************************)
(* Book.balance (lines 48-118) as a function of the store: what it returns *)
(* and the snapshot documents it writes.                                   *)
(***************************************************************************)
\* line 55
accountForBalanceSnapshot(query) ==
  IF AccountTruthy(query.account) THEN JoinComma(query.account.paths)
  ELSE IF query.account.kind = "str" THEN "" ELSE Undefined

\* lines 56-63: the key the snapshot is looked up under
LookupKey(book, query) ==
  SnapshotKey(parseQuery(query, book)["book"], accountForBalanceSnapshot(query),
              FilterMeta(parseQuery(query, book)))

\* lines 54-68: the snapshot the query starts from
StartSnapshot(book, query) ==
  IF book.balanceSnapshotSec # 0 THEN getBestSnapshot(LookupKey(book, query))
  ELSE {}

\* lines 64-72: the filter the aggregation runs
MatchFilter(book, query) ==
  LET parsedQuery == parseQuery(query, book)
      snap == StartSnapshot(book, query)
  IN IF snap = {} THEN parsedQuery
     ELSE ("_id" :> (CHOOSE s \in snap : TRUE).transaction) @@ parsedQuery

\* line 66 (line 53 when there is no snapshot)
needToDoBalanceSnapshot(book, query) ==
  LET snap == StartSnapshot(book, query)
  IN IF snap = {} THEN TRUE
     ELSE now > (CHOOSE s \in snap : TRUE).createdAt + book.balanceSnapshotSec

\* $last of the group stage.  The pipeline has no $sort, so the documents
\* reach the group in the order of the plan the store picked (an index on
\* datetime, on the account, the natural order, ...): any matched document
\* may be the last one.
LastOf(matched) == matched

\* writes: the snapshot documents the call may insert, one set per outcome
balance(book, query) ==
  LET snap == StartSnapshot(book, query)
      matched == Select(MatchFilter(book, query))
      base == IF snap = {} THEN 0 ELSE (CHOOSE s \in snap : TRUE).balance
      total == IF matched = {} THEN base ELSE base + Round(SumOver(matched))
      writes ==
        IF matched # {} /\ needToDoBalanceSnapshot(book, query)
        THEN {{snapshotBalance(book.name, accountForBalanceSnapshot(query),
                               FilterMeta(parseQuery(query, book)),
                               last._id, last.timestamp,
                               total, book.balanceSnapshotSec * 2)} :
                last \in LastOf(matched)}
        ELSE {{}}
  IN [balance |-> total, notes |-> Cardinality(matched), writes |-> writes]

(***************************************************************************)
(* Entries.  A pending posting is what Entry.debit / Entry.credit queue.    *)
(***************************************************************************)
Debit(path, amount, meta) ==
  [account_path |-> path, debit |-> amount, credit |-> 0, meta |-> meta]
Credit(path, amount, meta) ==
  [account_path |-> path, debit |-> 0, credit |-> amount, meta |-> meta]

Entry(datetime, postings) == [datetime |-> datetime, postings |-> postings]

NoEntry == Entry(0, <<>>)

EntryCash ==
  Entry(2, <<Debit(<<"Assets", "Cash">>, Unit, NoMeta),
             Credit(<<"Income", "Sales">>, Unit, NoMeta)>>)
EntryBank ==
  Entry(1, <<Debit(<<"Assets", "Bank">>, Unit, NoMeta),
             Credit(<<"Income", "Fees">>, Unit, NoMeta)>>)
\* off by one 10^-precision: within the tolerance
EntryNear ==
  Entry(1, <<Debit(<<"Assets", "Cash">>, 2 * Unit, NoMeta),
             Credit(<<"Income", "Sales">>, Unit, NoMeta)>>)
\* off by two: unbalanced
EntryOff ==
  Entry(1, <<Debit(<<"Assets", "Cash">>, 3 * Unit, NoMeta),
             Credit(<<"Income", "Sales">>, Unit, NoMeta)>>)

Entries == {EntryCash, EntryBank, EntryNear, EntryOff}
\* the entries of the interleaved runs
RaceEntries == {EntryCash, EntryBank, EntryOff}

RECURSIVE SumSeq(_)
\* the sum of debit - credit over a list of postings
SumSeq(ps) ==
  IF Len(ps) = 0 THEN 0
  ELSE (ps[1].debit - ps[1].credit) + SumSeq(Tail(ps))

\* Balanced with the tolerance doubled
BalancedWithinTwo(entry) == Abs(SumSeq(entry.postings)) <= 2 * Unit

\* the balance check of Entry.commit: |sum debit - sum credit| <= 10^-precision
Balanced(entry) == Abs(SumSeq(entry.postings)) <= Unit

\* the transaction documents of an entry: identifiers first, first + 1, ...
EntryDocs(book, entry, jid, first, original) ==
  {[_id |-> first + i - 1, book |-> book.name, _journal |-> jid,
    datetime |-> entry.datetime, timestamp |-> now,
    account_path |-> entry.postings[i].account_path,
    debit |-> entry.postings[i].debit, credit |-> entry.postings[i].credit,
    meta |-> entry.postings[i].meta, voided |-> FALSE,
    _original_journal |-> original] : i \in DOMAIN entry.postings}

JournalDoc(book, entry, jid, original, docs) ==
  [_id |-> jid, book |-> book.name, datetime |-> entry.datetime,
   voided |-> FALSE, voided_by |-> 0, _original_journal |-> original,
   _transactions |-> {d._id : d \in docs}]

(***************************************************************************)
(* Book.writelockAccounts (lines 199-217).                                 *)
(***************************************************************************)
RECURSIVE Dedupe(_)
\* Array.from(new Set(accounts)): first occurrences, in input order
Dedupe(accounts) ==
  IF Len(accounts) = 0 THEN <<>>
  ELSE LET rest == Dedupe(SubSeq(accounts, 1, Len(accounts) - 1))
           last == accounts[Len(accounts)]
       IN IF last \in SeqToSet(rest) THEN rest ELSE Append(rest, last)

\* the accounts the loop of writelockAccounts goes through
writelockList(accounts) == Dedupe(accounts)

\* the lock document's key: { account, book }
LockKey(book, account) == book.name \o "/" \o account

LockVersion(coll, key) == IF key \in DOMAIN coll THEN coll[key] ELSE 0

\* the accounts Entry.commit hands to writelockAccounts
EntryAccounts(entry) ==
  [i \in DOMAIN entry.postings |-> PathStr(entry.postings[i].account_path)]

(***************************************************************************)
(* Sessions: one store transaction at a time.                              *)
(***************************************************************************)
IdleSession(result) ==
  [pc |-> "idle", book |-> MainBook, entry |-> NoEntry, jid |-> 0,
   toLock |-> <<>>, held |-> {}, base |-> [k \in {} |-> 0], docs |-> {},
   overlapped |-> {}, result |-> result]

Active(s) == sess[s].pc # "idle"

\* the lock documents of the accounts the session's entry posts to
EntryLockKeys(s) ==
  {LockKey(sess[s].book, a) : a \in SeqToSet(EntryAccounts(sess[s].entry))}

\* the commits in flight, each of which will write one journal
InFlight == Cardinality({s \in Sessions : sess[s].pc \in {"lock", "written"}})

NoRet ==
  [op |-> "none", book |-> MainBook,
   query |-> Query(NoAccount, NoDate, NoDate, NoExtra),
   after |-> Query(NoAccount, NoDate, NoDate, NoExtra),
   balance |-> 0, notes |-> 0, results |-> <<>>, total |-> 0, wrote |-> {}]

\* the store's write-write conflict on a lock document: another open
\* transaction has written it, or it changed since this transaction began
WriteConflict(s, key) ==
  \/ \E t \in Sessions \ {s} : Active(t) /\ key \in sess[t].held
  \/ LockVersion(locks, key) # LockVersion(sess[s].base, key)

Init ==
  /\ transactions = {}
  /\ journals = {}
  /\ balances = {}
  /\ locks = [k \in {} |-> 0]
  /\ nextId = 1
  /\ now = 0
  /\ sess = [s \in Sessions |-> IdleSession("none")]
  /\ ret = NoRet

\* Entry.commit, first step: the store transaction begins
CommitStart(s, book, entry) ==
  /\ ~Active(s)
  /\ Cardinality(journals) + InFlight < MaxJournals
  /\ sess' = [sess EXCEPT ![s] =
       [pc |-> "lock", book |-> book, entry |-> entry, jid |-> 0,
        toLock |-> writelockList(EntryAccounts(entry)), held |-> {},
        base |-> locks, docs |-> {}, overlapped |-> {}, result |-> "none"]]
  /\ ret' = NoRet
  /\ UNCHANGED <<transactions, journals, balances, locks, nextId, now>>

\* LockNext with the upsert issued outside the session: the lock document is
\* written at once, and belongs to no store transaction
LockNextNoSession(s) ==
  /\ sess[s].pc = "lock"
  /\ sess[s].toLock # <<>>
  /\ LET key == LockKey(sess[s].book, Head(sess[s].toLock))
     IN /\ locks' = [k \in DOMAIN locks \cup {key} |->
                       IF k = key THEN LockVersion(locks, k) + 1 ELSE locks[k]]
        /\ sess' = [sess EXCEPT ![s].toLock = Tail(@)]
  /\ ret' = NoRet
  /\ UNCHANGED <<transactions, journals, balances, nextId, now>>

\* LockNext with the store's refusal swallowed: the loop goes on
LockNextIgnoresConflict(s) ==
  /\ sess[s].pc = "lock"
  /\ sess[s].toLock # <<>>
  /\ sess' = [sess EXCEPT ![s].toLock = Tail(@),
                          ![s].held = @ \cup {LockKey(sess[s].book, Head(sess[s].toLock))}]
  /\ ret' = NoRet
  /\ UNCHANGED <<transactions, journals, balances, locks, nextId, now>>

\* LockNext on a store that makes the upsert wait while another open
\* transaction holds the lock document
LockNextWaits(s) ==
  /\ sess[s].pc = "lock"
  /\ sess[s].toLock # <<>>
  /\ LET key == LockKey(sess[s].book, Head(sess[s].toLock))
     IN /\ \A u \in Sessions \ {s} : key \notin sess[u].held
        /\ IF LockVersion(locks, key) # LockVersion(sess[s].base, key)
           THEN sess' = [sess EXCEPT ![s] = IdleSession("TransientTransactionError")]
           ELSE sess' = [sess EXCEPT ![s].toLock = Tail(@),
                                     ![s].held = @ \cup {key}]
  /\ ret' = NoRet
  /\ UNCHANGED <<transactions, journals, balances, locks, nextId, now>>

\* one turn of the loop of writelockAccounts: the upsert of the next account
\* within the session, which the store refuses with a transient error on a
\* write-write conflict
LockNext(s) ==
  /\ sess[s].pc = "lock"
  /\ sess[s].toLock # <<>>
  /\ LET key == LockKey(sess[s].book, Head(sess[s].toLock))
     IN IF WriteConflict(s, key)
        THEN sess' = [sess EXCEPT ![s] = IdleSession("TransientTransactionError")]
        ELSE sess' = [sess EXCEPT ![s].toLock = Tail(@),
                                  ![s].held = @ \cup {key}]
  /\ ret' = NoRet
  /\ UNCHANGED <<transactions, journals, balances, locks, nextId, now>>

\* Entry.commit after the locks: the balance check, then the inserts
CommitWrite(s) ==
  /\ sess[s].pc = "lock"
  /\ sess[s].toLock = <<>>
  /\ IF Balanced(sess[s].entry)
     THEN /\ nextId + Len(sess[s].entry.postings) <= MaxId
          /\ sess' = [sess EXCEPT ![s].pc = "written", ![s].jid = nextId,
                 ![s].docs = EntryDocs(sess[s].book, sess[s].entry, nextId,
                                       nextId + 1, 0)]
          /\ nextId' = nextId + 1 + Len(sess[s].entry.postings)
     ELSE /\ sess' = [sess EXCEPT ![s] = IdleSession("BookUnbalancedTransactionError")]
          /\ nextId' = nextId
  /\ ret' = NoRet
  /\ UNCHANGED <<transactions, journals, balances, locks, now>>

\* the store transaction commits: its writes become visible together
StoreCommit(s) ==
  /\ sess[s].pc = "written"
  /\ transactions' = transactions \cup sess[s].docs
  /\ journals' = journals \cup
       {JournalDoc(sess[s].book, sess[s].entry, sess[s].jid, 0, sess[s].docs)}
  /\ locks' = [k \in DOMAIN locks \cup sess[s].held |->
                 IF k \in sess[s].held THEN LockVersion(locks, k) + 1
                 ELSE locks[k]]
  /\ sess' = [u \in Sessions |->
       IF u = s THEN IdleSession("committed")
       ELSE IF Active(u)
       THEN [sess[u] EXCEPT !.overlapped = @ \cup EntryLockKeys(s)]
       ELSE sess[u]]
  /\ ret' = NoRet
  /\ UNCHANGED <<balances, nextId, now>>

\* the caller cancels: the store transaction is aborted
Cancel(s) ==
  /\ Active(s)
  /\ sess' = [sess EXCEPT ![s] = IdleSession("canceled")]
  /\ ret' = NoRet
  /\ UNCHANGED <<transactions, journals, balances, locks, nextId, now>>

(***************************************************************************)
(* Book.void (lines 180-197) and Journal.void.                             *)
(***************************************************************************)
\* FindJournal without the book in the filter
FindJournalOfAnyBook(book, journal_id) ==
  {j \in journals : j._id = journal_id}

\* lines 181-190: journalModel.findOne({ _id: journal_id, book: this.name })
FindJournal(book, journal_id) ==
  {j \in journals : j._id = journal_id /\ j.book = book.name}

\* AlreadyVoided with the check left out
AlreadyVoidedNever(j) == FALSE

\* Journal.void's first check
AlreadyVoided(j) == j.voided

\* the reversal of a journal's postings: debit and credit swapped, fresh
\* identifiers in the order of the originals
ReversalDocs(book, j, rid, first) ==
  LET orig == {t \in transactions : t._journal = j._id}
      rank(t) == Cardinality({o \in orig : o._id < t._id})
  IN {[_id |-> first + rank(t), book |-> book.name, _journal |-> rid,
       datetime |-> now, timestamp |-> now, account_path |-> t.account_path,
       debit |-> t.credit, credit |-> t.debit, meta |-> t.meta,
       voided |-> FALSE, _original_journal |-> j._id] : t \in orig}

\* Book.void up to the first write: the lookup, then Journal.void's check
VoidCall(s, book, journal_id) ==
  /\ ~Active(s)
  /\ LET found == FindJournal(book, journal_id)
     IN IF found = {}
        THEN sess' = [sess EXCEPT ![s] =
               [IdleSession("JournalNotFoundError") EXCEPT !.book = book,
                                                           !.jid = journal_id]]
        ELSE IF AlreadyVoided(CHOOSE j \in found : TRUE)
        THEN sess' = [sess EXCEPT ![s] = IdleSession("JournalAlreadyVoidedError")]
        ELSE sess' = [sess EXCEPT ![s] =
               [IdleSession("none") EXCEPT !.pc = "void", !.book = book,
                                           !.jid = journal_id]]
  /\ ret' = NoRet
  /\ UNCHANGED <<transactions, journals, balances, locks, nextId, now>>

\* Journal.void's writes and the commit of its store transaction: the reversal
\* journal and its postings, and the voided marks.  The store refuses the
\* write when the journal changed since this transaction read it.
VoidCommit(s) ==
  /\ sess[s].pc = "void"
  /\ LET j == CHOOSE x \in journals : x._id = sess[s].jid
         rid == nextId
         docs == ReversalDocs(sess[s].book, j, rid, nextId + 1)
         entry == Entry(now, <<>>)
     IN IF j.voided
        THEN /\ sess' = [sess EXCEPT ![s] = IdleSession("TransientTransactionError")]
             /\ UNCHANGED <<transactions, journals, nextId>>
        ELSE /\ Cardinality(journals) + InFlight < MaxJournals
             /\ transactions' =
                  {IF t._journal = j._id THEN [t EXCEPT !.voided = TRUE] ELSE t :
                     t \in transactions} \cup docs
             /\ journals' =
                  (journals \ {j})
                    \cup {[j EXCEPT !.voided = TRUE, !.voided_by = rid]}
                    \cup {JournalDoc(sess[s].book, entry, rid, j._id, docs)}
             /\ nextId' = nextId + 1 + Cardinality(docs)
             /\ sess' = [sess EXCEPT ![s] = IdleSession("voided")]
  /\ ret' = NoRet
  /\ UNCHANGED <<balances, locks, now>>

(***************************************************************************)
(* Book.balance as an action, the clock and the TTL monitor.               *)
(***************************************************************************)
Balance(book, query) ==
  \E write \in balance(book, query).writes :
    /\ balances' = balances \cup write
    /\ ret' = [NoRet EXCEPT !.op = "balance", !.book = book, !.query = query,
                            !.after = query,
                            !.balance = balance(book, query).balance,
                            !.notes = balance(book, query).notes,
                            !.wrote = write]
    /\ UNCHANGED <<transactions, journals, locks, nextId, now, sess>>

Tick ==
  /\ now < MaxNow
  /\ now' = now + 1
  /\ ret' = NoRet
  /\ UNCHANGED <<transactions, journals, balances, locks, nextId, sess>>

\* the TTL index on expireAt: the store deletes the expired snapshots
ExpireSnapshots ==
  /\ \E b \in balances : b.expireAt <= now
  /\ balances' = {b \in balances : b.expireAt > now}
  /\ ret' = NoRet
  /\ UNCHANGED <<transactions, journals, locks, nextId, now, sess>>

(***************************************************************************)
(* Book.ledger (lines 132-178).                                            *)
(***************************************************************************)
\* a numeric key of the query object: present and not 0
KeyTruthy(query, key) == key \in DOMAIN query.extra /\ query.extra[key] # 0

\* lines 143-148: whether the call paginates, and the caller's query object
\* after the two deletes
Paginates(query) == KeyTruthy(query, "perPage")

QueryAfterLedger(query) ==
  IF Paginates(query)
  THEN [query EXCEPT !.extra =
          [k \in DOMAIN query.extra \ {"perPage", "page"} |-> query.extra[k]]]
  ELSE query

\* line 144
LedgerSkip(query) ==
  (IF KeyTruthy(query, "page") THEN query.extra["page"] - 1 ELSE 0)
    * query.extra["perPage"]

\* sort({ datetime: -1, timestamp: -1 }); documents that tie come in the order
\* of their identifiers
ComesBefore(t, o) ==
  \/ t.datetime > o.datetime
  \/ t.datetime = o.datetime /\ t.timestamp > o.timestamp
  \/ t.datetime = o.datetime /\ t.timestamp = o.timestamp /\ t._id <= o._id

RECURSIVE Sorted(_)
Sorted(S) ==
  IF S = {} THEN <<>>
  ELSE LET first == CHOOSE t \in S : \A o \in S : ComesBefore(t, o)
       IN <<first._id>> \o Sorted(S \ {first})

\* skip(skip).limit(limit) on the sorted result
Window(sorted, skip, limit) ==
  SubSeq(sorted, skip + 1, IF skip + limit < Len(sorted) THEN skip + limit
                           ELSE Len(sorted))

ledger(book, query) ==
  LET filterQuery == parseQuery(QueryAfterLedger(query), book)
      sorted == Sorted(Select(filterQuery))
      count == IF Paginates(query) THEN Cardinality(Select(filterQuery)) ELSE 0
      results == IF Paginates(query)
                 THEN Window(sorted, LedgerSkip(query), query.extra["perPage"])
                 ELSE sorted
  IN [results |-> results,
      total |-> IF count # 0 THEN count ELSE Len(results)]

\* the store refuses a negative skip
Ledger(book, query) ==
  /\ ret' = IF Paginates(query) /\ LedgerSkip(query) < 0
            THEN [NoRet EXCEPT !.op = "ledger_error", !.book = book,
                               !.query = query, !.after = QueryAfterLedger(query)]
            ELSE [NoRet EXCEPT !.op = "ledger", !.book = book, !.query = query,
                               !.after = QueryAfterLedger(query),
                               !.results = ledger(book, query).results,
                               !.total = ledger(book, query).total]
  /\ UNCHANGED <<transactions, journals, balances, locks, nextId, now, sess>>

(***************************************************************************)
(* The inputs of the runs.                                                 *)
(***************************************************************************)
QAssets == Query(AccStr(<<"Assets">>), NoDate, NoDate, NoExtra)
QCash == Query(AccStr(<<"Assets", "Cash">>), NoDate, NoDate, NoExtra)
QAssetsUntil == Query(AccStr(<<"Assets">>), NoDate, DateOf("number", 1), NoExtra)

PlainQueries == {QAssets, QCash}
\* the query of the interleaved runs
RaceQueries == {QAssets}
AllQueries == PlainQueries \cup {QAssetsUntil}

\* the journal identifiers handed to Book.void: those written, and one that
\* names no journal
VoidTargets == {j._id : j \in journals} \cup {nextId}

\* the runs of the query compiler: paths of up to three segments, two books,
\* and a second facade of the first book with snapshots switched off
DeepBook == Book("b1", 3, 1)
DeepOther == Book("b2", 3, 1)
DeepBookNoSnapshots == Book("b1", 3, 0)

EntryDeep ==
  Entry(1, <<Debit(<<"A", "B", "C">>, Unit, NoMeta),
             Credit(<<"A", "X">>, Unit, NoMeta)>>)
EntryMid ==
  Entry(2, <<Debit(<<"A", "B">>, Unit, NoMeta),
             Credit(<<"B">>, Unit, NoMeta)>>)
DeepEntries == {EntryDeep, EntryMid}

SingleAccounts ==
  {<<"A">>, <<"A", "B">>, <<"A", "B", "C">>, <<"A", "X">>, <<"B">>, <<"X">>,
   <<"A", "B", "C", "D">>}
AccountLists ==
  {<<<<"A", "B">>, <<"B">>>>, <<<<"A", "B", "C">>, <<"B", "B", "C">>>>,
   <<<<"A", "X">>>>}
QueryAccounts ==
  {AccStr(p) : p \in SingleAccounts} \cup {AccArr(ps) : ps \in AccountLists}
     \cup {NoAccount}
QueryExtras == {NoExtra, "book" :> "b2"}

LedgerQueries ==
  {Query(a, NoDate, NoDate, x) : a \in QueryAccounts, x \in QueryExtras}
BalanceQueries ==
  {Query(AccStr(<<"A">>), NoDate, NoDate, x) : x \in QueryExtras}

\* the runs of the ledger lister: a book without snapshots, postings with and
\* without metadata, and queries with pagination keys, a metadata key and
\* dates in each accepted form
PageBook == Book("b1", 2, 0)

Tagged == "k" :> "v"
TaggedTwice == ("k" :> "v") @@ ("other" :> "w")

EntryTagged ==
  Entry(0, <<Debit(<<"A", "X">>, Unit, Tagged),
             Credit(<<"A", "Y">>, Unit, TaggedTwice)>>)
EntryPlain ==
  Entry(2, <<Debit(<<"A", "X">>, Unit, NoMeta),
             Credit(<<"B">>, Unit, NoMeta)>>)
PageEntries == {EntryTagged, EntryPlain}

PageSizes == {1, 2}
PageNumbers == {-1, 0, 1, 2, 3}
PageExtras ==
  {("perPage" :> n) @@ ("page" :> p) : n \in PageSizes, p \in PageNumbers}
    \cup {"perPage" :> n : n \in PageSizes}
    \cup {"page" :> 2, ("perPage" :> 0) @@ ("page" :> 2)}
StartDates == {NoDate, DateOf("number", 0), DateOf("date", 0), DateOf("string", 1)}
EndDates == {NoDate, DateOf("number", 0), DateOf("date", 0), DateOf("number", 2)}

PageQueries ==
  {Query(AccStr(<<"A">>), NoDate, NoDate, x) : x \in PageExtras \cup {NoExtra, Tagged}}
DateQueries ==
  {Query(AccStr(<<"A">>), sd, ed, NoExtra) : sd \in StartDates, ed \in EndDates}
PageBalanceQueries ==
  {Query(AccStr(<<"A">>), NoDate, NoDate, Tagged),
   Query(AccStr(<<"A">>), NoDate, DateOf("number", 0), NoExtra)}

\* the runs of the snapshot cache: an account whose name holds a comma, a
\* posting with metadata, and queries by one account, by a list of accounts
\* and by metadata
SnapBook == Book("b1", 2, 1)

EntryFirst ==
  Entry(2, <<Debit(<<"A">>, Unit, NoMeta), Credit(<<"B">>, Unit, Tagged)>>)
EntryComma ==
  Entry(1, <<Debit(<<"A,B">>, Unit, NoMeta), Credit(<<"A">>, Unit, NoMeta)>>)
SnapEntries == {EntryFirst, EntryComma}

QB == Query(AccStr(<<"B">>), NoDate, NoDate, NoExtra)
QBTagged == Query(AccStr(<<"B">>), NoDate, NoDate, Tagged)
QList == Query(AccArr(<<<<"A">>, <<"B">>>>), NoDate, NoDate, NoExtra)
QComma == Query(AccStr(<<"A,B">>), NoDate, NoDate, NoExtra)
SnapQueries == {QB, QBTagged, QList, QComma}

\* the runs of the write-lock: two entries on the same two accounts, in
\* opposite orders
EntryCashBack ==
  Entry(1, <<Credit(<<"Income", "Sales">>, Unit, NoMeta),
             Debit(<<"Assets", "Cash">>, Unit, NoMeta)>>)
LockEntries == {EntryCash, EntryCashBack}

(***************************************************************************)
(* Specifications.  Spec: two sessions whose store transactions interleave, *)
(* and balance queries by account.  SpecSeq: one session, so that calls     *)
(* follow one another, every query, the clock and the TTL monitor.          *)
(* SpecQuery: one session, two books, the queries of the query compiler.    *)
(* SpecLedger: one session, pagination, metadata and date queries.         *)
(* SpecSnap: one session, the snapshot cache, the clock and the TTL         *)
(* monitor.  SpecLock: two sessions locking the same accounts in opposite  *)
(* orders, the store answering every upsert.                               *)
(***************************************************************************)
Next ==
  \/ \E s \in Sessions, e \in RaceEntries : CommitStart(s, MainBook, e)
  \/ \E s \in Sessions : LockNext(s)
  \/ \E s \in Sessions : CommitWrite(s)
  \/ \E s \in Sessions : StoreCommit(s)
  \/ \E s \in Sessions : Cancel(s)
  \/ \E s \in Sessions, b \in {MainBook, OtherBook}, j \in VoidTargets : VoidCall(s, b, j)
  \/ \E s \in Sessions : VoidCommit(s)
  \/ \E q \in RaceQueries : Balance(MainBook, q)

Spec == Init /\ [][Next]_vars

NextSeq ==
  \/ \E s \in SeqSessions, e \in Entries : CommitStart(s, MainBook, e)
  \/ \E s \in SeqSessions : LockNext(s)
  \/ \E s \in SeqSessions : CommitWrite(s)
  \/ \E s \in SeqSessions : StoreCommit(s)
  \/ \E s \in SeqSessions, b \in {MainBook, OtherBook}, j \in VoidTargets : VoidCall(s, b, j)
  \/ \E s \in SeqSessions : VoidCommit(s)
  \/ \E q \in AllQueries : Balance(MainBook, q)
  \/ Tick
  \/ ExpireSnapshots

SpecSeq == Init /\ [][NextSeq]_vars

NextQuery ==
  \/ \E s \in SeqSessions, b \in {DeepBook, DeepOther}, e \in DeepEntries :
       CommitStart(s, b, e)
  \/ \E s \in SeqSessions : LockNext(s)
  \/ \E s \in SeqSessions : CommitWrite(s)
  \/ \E s \in SeqSessions : StoreCommit(s)
  \/ \E b \in {DeepBook, DeepBookNoSnapshots}, q \in BalanceQueries : Balance(b, q)
  \/ \E q \in LedgerQueries : Ledger(DeepBook, q)
  \/ ExpireSnapshots

SpecQuery == Init /\ [][NextQuery]_vars

NextLedger ==
  \/ \E s \in SeqSessions, e \in PageEntries : CommitStart(s, PageBook, e)
  \/ \E s \in SeqSessions : LockNext(s)
  \/ \E s \in SeqSessions : CommitWrite(s)
  \/ \E s \in SeqSessions : StoreCommit(s)
  \/ \E q \in PageQueries \cup DateQueries : Ledger(PageBook, q)
  \/ \E q \in PageBalanceQueries : Balance(PageBook, q)

SpecLedger == Init /\ [][NextLedger]_vars

NextSnap ==
  \/ \E s \in SeqSessions, e \in SnapEntries : CommitStart(s, SnapBook, e)
  \/ \E s \in SeqSessions : LockNext(s)
  \/ \E s \in SeqSessions : CommitWrite(s)
  \/ \E s \in SeqSessions : StoreCommit(s)
  \/ \E q \in SnapQueries : Balance(SnapBook, q)
  \/ Tick
  \/ ExpireSnapshots

SpecSnap == Init /\ [][NextSnap]_vars

NextLock ==
  \/ \E s \in Sessions, e \in LockEntries : CommitStart(s, MainBook, e)
  \/ \E s \in Sessions : LockNext(s)
  \/ \E s \in Sessions : CommitWrite(s)
  \/ \E s \in Sessions : StoreCommit(s)
  \/ \E s \in Sessions : Cancel(s)

\* every upsert the loop awaits is answered by the store, so the loop of an
\* open call goes on
SpecLock ==
  Init /\ [][NextLock]_vars /\ \A s \in Sessions : WF_vars(LockNext(s))

(***************************************************************************)
(* The claims.                                                             *)
(***************************************************************************)

\* the live balance of a query: credit - debit over every committed
\* transaction its filter selects
LiveBalance(book, query) == SumOver(Select(parseQuery(query, book)))

\* C1: snapshot soundness.  For every stored snapshot and every query by
\* account whose key (book, account, meta) is the snapshot's, the snapshot's
\* balance plus credit - debit over the matching transactions with an
\* identifier above snapshot.transaction is the live balance of the key.
C1_SnapshotSoundness ==
  \A s \in balances, q \in PlainQueries :
    LookupKey(MainBook, q) = KeyOf(s) =>
      s.balance
        + SumOver({t \in Select(parseQuery(q, MainBook)) : t._id > s.transaction})
        = LiveBalance(MainBook, q)

\* C2: whatever was committed, voided and queried before, the balance a call
\* returns with snapshots enabled is the balance the full aggregation over
\* the query's filter returns on a book with balanceSnapshotSec = 0.
C2_BalanceEqualsFullAggregation ==
  ret.op = "balance" =>
    ret.balance =
      balance(Book(ret.book.name, ret.book.maxAccountPath, 0), ret.query).balance

\* C3: read after write.  Under any interleaving of commits and balance
\* queries of different sessions, a balance query by account counts every
\* posting of every commit that has completed.
C3_ReadAfterWrite ==
  ret.op = "balance" => ret.balance = LiveBalance(ret.book, ret.query)

\* credit - debit over the postings of a journal
JournalSum(jid) == SumOver({t \in transactions : t._journal = jid})

\* C4: balanced commit.  Every committed journal has |sum debit - sum
\* credit| <= 10^-precision over its postings, and the commit of an entry
\* that is further off ends in the balance error with the journals and
\* transactions collections as they were.
C4_Balanced ==
  /\ \A j \in journals : Abs(JournalSum(j._id)) <= Unit
  /\ \A s \in Sessions :
       sess[s].pc = "written" => Abs(SumSeq(sess[s].entry.postings)) <= Unit

C4_RejectStep ==
  \A s \in Sessions :
    /\ sess[s].pc = "lock"
    /\ sess[s].toLock = <<>>
    /\ Abs(SumSeq(sess[s].entry.postings)) > Unit
    /\ sess'[s] # sess[s]
    => /\ sess'[s].pc = "idle"
       /\ sess'[s].result \in {"BookUnbalancedTransactionError", "canceled"}
       /\ UNCHANGED <<journals, transactions>>

C4_BalancedCommit == []C4_Balanced /\ [][C4_RejectStep]_vars

\* C4's case: a journal off by exactly 10^-precision is committed and an
\* entry off by more has been refused
C4_Witness ==
  /\ \E j \in journals : Abs(JournalSum(j._id)) = Unit
  /\ sess["s1"].result = "BookUnbalancedTransactionError"

\* the original postings of a voided journal and the postings of its
\* reversal, on one account
VoidPair(j, account) ==
  {t \in transactions :
     /\ t._journal \in {j._id, j.voided_by}
     /\ account \in Prefixes(t.account_path)}

\* C5: void zero-sum.  On every account a voided journal posted to, and on
\* every prefix of it, the original postings and the reversal's sum to zero;
\* and once every journal of the book is voided or a reversal, a balance
\* query by account returns 0, as it would had nothing been committed.
C5_VoidZeroSum ==
  /\ \A j \in journals, t \in transactions :
       j.voided /\ t._journal = j._id =>
         \A account \in Prefixes(t.account_path) :
           SumOver(VoidPair(j, account)) = 0
  /\ /\ ret.op = "balance"
     /\ ret.query \in PlainQueries
     /\ journals # {}
     /\ \A j \in journals : j.voided \/ j._original_journal # 0
     => ret.balance = 0

\* the transactions of the book posted to one of the accounts or below it
PostedUnder(book, accounts) ==
  {t \in transactions :
     /\ t.book = book.name
     /\ \E a \in accounts : a \in Prefixes(t.account_path)}

\* a query that names accounts and nothing else
AccountOnly(query) ==
  /\ AccountTruthy(query.account)
  /\ query.start_date = NoDate
  /\ query.end_date = NoDate
  /\ query.extra = NoExtra

\* C6: account-prefix visibility.  A ledger or balance query for an account
\* reads exactly the book's transactions posted to that account or to an
\* account below it, and a query for a list of accounts reads the union.
C6_PrefixVisibility ==
  /\ ret.op = "ledger" /\ AccountOnly(ret.query) =>
       SeqToSet(ret.results) =
         {t._id : t \in PostedUnder(ret.book, SeqToSet(ret.query.account.paths))}
  /\ ret.op = "balance" /\ AccountOnly(ret.query)
       /\ ret.book.balanceSnapshotSec = 0 =>
       /\ ret.notes = Cardinality(PostedUnder(ret.book, SeqToSet(ret.query.account.paths)))
       /\ ret.balance = SumOver(PostedUnder(ret.book, SeqToSet(ret.query.account.paths)))

\* C6's case: the ledger of "A:B" holds a posting to "A:B" and one to
\* "A:B:C", while the book has postings elsewhere
C6_Witness ==
  /\ ret.op = "ledger"
  /\ ret.query.account = AccStr(<<"A", "B">>)
  /\ Len(ret.results) = 2
  /\ \E t \in transactions : t.book = ret.book.name /\ t._id \notin SeqToSet(ret.results)

\* C7: book isolation.  Whatever the caller's query, a ledger call returns,
\* and a balance call aggregates, transactions of the owning book only.
C7_BookIsolation ==
  /\ ret.op = "ledger" =>
       \A t \in transactions :
         t._id \in SeqToSet(ret.results) => t.book = ret.book.name
  /\ ret.op = "balance" =>
       \A t \in Select(parseQuery(ret.query, ret.book)) : t.book = ret.book.name

\* the lock documents written since the session's store transaction began
ChangedSince(s) ==
  {k \in DOMAIN locks : LockVersion(locks, k) # LockVersion(sess[s].base, k)}

\* the session's store transaction commits in this step
Commits(s) ==
  /\ sess[s].pc = "written"
  /\ sess'[s].pc = "idle"
  /\ sess'[s].result = "committed"

\* C8: write-lock serialization.  A commit that goes through shares no
\* account with a commit that went through while its own store transaction
\* was open; a session whose next lock document another open or since
\* committed transaction has written is aborted with the transient error,
\* and a session whose next lock document none has written is not.
C8_CommitStep ==
  \A s \in Sessions :
    /\ Commits(s) => EntryLockKeys(s) \cap sess[s].overlapped = {}
    /\ /\ sess[s].pc = "lock"
       /\ sess[s].toLock # <<>>
       /\ sess'[s].toLock # sess[s].toLock
       /\ sess'[s].result # "canceled"
       /\ \/ LockKey(sess[s].book, Head(sess[s].toLock)) \in ChangedSince(s)
          \/ \E u \in Sessions \ {s} :
               LockKey(sess[s].book, Head(sess[s].toLock)) \in sess[u].held
       => /\ sess'[s].pc = "idle"
          /\ sess'[s].result = "TransientTransactionError"
    /\ /\ sess[s].pc = "lock"
       /\ sess[s].toLock # <<>>
       /\ sess'[s].toLock # sess[s].toLock
       /\ LockKey(sess[s].book, Head(sess[s].toLock)) \notin ChangedSince(s)
       /\ \A u \in Sessions \ {s} :
            LockKey(sess[s].book, Head(sess[s].toLock)) \notin sess[u].held
       => sess'[s].result # "TransientTransactionError"

C8_WriteLockSerialization == [][C8_CommitStep]_vars

\* C8's case: of two commits open together on one account, one went through
\* and the other was aborted
C8_Witness ==
  /\ sess["s1"].result = "committed"
  /\ sess["s2"].result = "TransientTransactionError"
  /\ Cardinality(journals) = 1

\* the journal and its transactions are in the store together
C9_Whole ==
  /\ \A j \in journals :
       /\ j._transactions # {}
       /\ \A id \in j._transactions :
            \E t \in transactions : t._id = id /\ t._journal = j._id
  /\ \A t \in transactions :
       \E j \in journals : j._id = t._journal /\ t._id \in j._transactions

\* the collections change only in the step that commits a store transaction
C9_Step ==
  \/ UNCHANGED <<journals, transactions, locks>>
  \/ \E s \in Sessions :
       /\ sess[s].pc \in {"written", "void"}
       /\ sess'[s].pc = "idle"
       /\ sess'[s].result \in {"committed", "voided"}

\* C9: commit atomicity.  A journal, all its transactions and the lock
\* updates of its accounts become visible in one step; a commit that fails
\* or is canceled leaves none of them.
C9_CommitAtomicity == []C9_Whole /\ [][C9_Step]_vars

\* C9's case: a commit was canceled after it had written its documents, and
\* nothing of it is in the store
C9_Witness ==
  /\ sess["s1"].result = "canceled"
  /\ sess["s2"].pc = "idle"
  /\ nextId > 1
  /\ journals = {}
  /\ transactions = {}
  /\ DOMAIN locks = {}

Reversals(j) == {r \in journals : r._original_journal = j._id}

C10_Once ==
  \A j \in journals :
    /\ Cardinality(Reversals(j)) <= 1
    /\ j.voided <=> Reversals(j) # {}
    /\ j.voided => j.voided_by \in {r._id : r \in Reversals(j)}

C10_Step ==
  \A s \in Sessions :
    /\ sess[s].pc = "idle" /\ sess'[s].pc = "void" =>
         \A j \in journals : j._id = sess'[s].jid => ~j.voided
    /\ sess[s].pc = "void" /\ sess'[s].result = "voided" =>
         \A j \in journals : j._id = sess[s].jid => ~j.voided
    /\ sess'[s] # sess[s] /\ sess'[s].result = "JournalAlreadyVoidedError" =>
         UNCHANGED <<journals, transactions, balances, locks>>

\* C10: void-once.  A journal has at most one reversal, and is marked voided
\* exactly when it has one; a void of an already voided journal fails with
\* JournalAlreadyVoidedError and changes nothing, and of two voids of one
\* journal only the one that finds it not voided goes through.
C10_VoidOnce == []C10_Once /\ [][C10_Step]_vars

\* C10's case: a journal is voided and a second void of it has been refused
C10_Witness ==
  /\ \E j \in journals : j.voided
  /\ sess["s1"].result = "voided"
  /\ sess["s2"].result = "JournalAlreadyVoidedError"

\* C11: void of a journal the book does not have.  A Book.void whose
\* identifier names no journal, or a journal of another book, ends in
\* JournalNotFoundError with the journals and transactions collections as
\* they were; a void that goes on has found the journal in its own book, and
\* every reversal is in the book of the journal it reverses.
C11_Found ==
  \A r \in journals :
    r._original_journal # 0 =>
      \E j \in journals : j._id = r._original_journal /\ j.book = r.book

C11_Step ==
  \A s \in Sessions :
    /\ sess'[s] # sess[s] /\ sess'[s].result = "JournalNotFoundError" =>
         /\ \A j \in journals :
              j._id = sess'[s].jid => j.book # sess'[s].book.name
         /\ UNCHANGED <<journals, transactions, balances, locks, nextId>>
    /\ sess[s].pc = "idle" /\ sess'[s].pc = "void" =>
         \E j \in journals :
           j._id = sess'[s].jid /\ j.book = sess'[s].book.name

C11_VoidNotFound == []C11_Found /\ [][C11_Step]_vars

\* C11's case: the other book was asked to void a journal of this book
C11_Witness ==
  \E s \in Sessions :
    /\ sess[s].result = "JournalNotFoundError"
    /\ sess[s].book = OtherBook
    /\ \E j \in journals : j._id = sess[s].jid /\ j.book = MainBook.name

\* the query without its pagination keys: the filter the caller asked for
WithoutPaging(query) ==
  [query EXCEPT !.extra = [k \in DOMAIN query.extra \ {"page", "perPage"} |->
                             query.extra[k]]]

\* the transactions the caller's filter matches
Wanted(book, query) == Select(parseQuery(WithoutPaging(query), book))

RECURSIVE Pages(_, _, _, _)
\* the results of pages from, from + 1, ... of size perPage, one after another
Pages(book, query, perPage, from) ==
  LET q == [query EXCEPT !.extra =
              ("perPage" :> perPage) @@ ("page" :> from) @@ WithoutPaging(query).extra]
      got == ledger(book, q).results
  IN IF got = <<>> THEN <<>> ELSE got \o Pages(book, query, perPage, from + 1)

\* C12: pagination total.  The total a ledger call returns is the number of
\* transactions its filter matches, whatever page and perPage are (also with
\* neither, and with page alone); pages 1, 2, ... of any size hold together
\* exactly the matching transactions, each once.
C12_PaginationTotal ==
  ret.op = "ledger" =>
    /\ ret.total = Cardinality(Wanted(ret.book, ret.query))
    /\ \A n \in PageSizes :
         Pages(ret.book, ret.query, n, 1) = Sorted(Wanted(ret.book, ret.query))

\* the extra keys of a query that name no transaction column
MetaKeysOf(query) ==
  {k \in DOMAIN query.extra : ~isValidTransactionKey(k) /\ ~isPrototypeAttribute(k)}

\* the transactions of the filter whose meta maps every such key to the
\* value asked for
WantedByMeta(book, query) ==
  {t \in Select(parseQuery([query EXCEPT !.extra = NoExtra], book)) :
     \A k \in MetaKeysOf(query) :
       k \in DOMAIN t.meta /\ t.meta[k] = query.extra[k]}

\* C13: metadata filtering.  A query with an extra key k = v that names no
\* transaction column selects exactly the transactions of its filter whose
\* meta maps k to v, whatever else their meta holds; the compiled filter
\* holds no transaction column under meta.
C13_MetaFilter ==
  /\ ret.op = "ledger" /\ ret.query.extra = Tagged =>
       SeqToSet(ret.results) = {t._id : t \in WantedByMeta(ret.book, ret.query)}
  /\ ret.op = "balance" /\ ret.query.extra = Tagged =>
       /\ ret.notes = Cardinality(WantedByMeta(ret.book, ret.query))
       /\ ret.balance = SumOver(WantedByMeta(ret.book, ret.query))
  /\ ret.op \in {"ledger", "balance"} =>
       \A k \in DOMAIN FilterMeta(parseQuery(ret.query, ret.book)) :
         ~isValidTransactionKey(k)

\* a date was supplied, in whatever form
Supplied(d) == d.form # "absent"

\* the transactions of the account whose datetime lies within the dates
\* supplied, bounds included
WantedByDate(book, query) ==
  {t \in Select(parseQuery([query EXCEPT !.start_date = NoDate,
                                         !.end_date = NoDate], book)) :
     /\ Supplied(query.start_date) => t.datetime >= query.start_date.ms
     /\ Supplied(query.end_date) => t.datetime <= query.end_date.ms}

\* C14: date range.  For a start_date and an end_date in any accepted form,
\* epoch 0 included, a query selects exactly the transactions whose datetime
\* is at or after the start_date supplied and at or before the end_date
\* supplied.
C14_DateRange ==
  /\ ret.op = "ledger" /\ ret.query \in DateQueries =>
       SeqToSet(ret.results) = {t._id : t \in WantedByDate(ret.book, ret.query)}
  /\ ret.op = "balance" /\ ret.query.extra = NoExtra =>
       ret.notes = Cardinality(WantedByDate(ret.book, ret.query))

\* max(0, page - 1) * perPage, page absent counting as page 1
SpecSkip(query) ==
  LET page == IF "page" \in DOMAIN query.extra THEN query.extra["page"] ELSE 1
  IN (IF page > 1 THEN page - 1 ELSE 0) * query.extra["perPage"]

\* C19: ledger page window.  With perPage > 0 and any integer page, or none,
\* the call returns the perPage transactions that follow the first
\* max(0, page - 1) * perPage of the sorted result.
C19_PageWindow ==
  /\ ret.op \in {"ledger", "ledger_error"}
  /\ "perPage" \in DOMAIN ret.query.extra
  /\ ret.query.extra["perPage"] > 0
  => /\ ret.op = "ledger"
     /\ ret.results =
          Window(Sorted(Wanted(ret.book, ret.query)), SpecSkip(ret.query),
                 ret.query.extra["perPage"])

\* C20: the caller's query object.  A ledger or balance call leaves the
\* query object it was given as it was, so a ledger call repeated with the
\* same object on the same store returns the same results and total.
C20_QueryUnchanged ==
  /\ ret.op \in {"ledger", "balance"} => ret.after = ret.query
  /\ ret.op = "ledger" =>
       /\ ledger(ret.book, ret.after).results = ret.results
       /\ ledger(ret.book, ret.after).total = ret.total

\* the call that the step makes is a balance call that saw a reason to write
WriteDue(book, query) ==
  /\ book.balanceSnapshotSec > 0
  /\ needToDoBalanceSnapshot(book, query)
  /\ Select(MatchFilter(book, query)) # {}

\* C15: snapshot write condition.  A balance call writes a snapshot exactly
\* when snapshots are enabled, a refresh is needed and the aggregation saw a
\* transaction, and the snapshot expires 2 x balanceSnapshotSec after it was
\* written; every other call, and every call on a book with
\* balanceSnapshotSec = 0, leaves the balances collection as it was.
C15_Step ==
  ret'.op = "balance" /\ ret' # ret =>
    /\ WriteDue(ret'.book, ret'.query) =>
         /\ ret'.wrote # {}
         /\ \A b \in ret'.wrote :
              b.expireAt = b.createdAt + 2 * ret'.book.balanceSnapshotSec
    /\ ~WriteDue(ret'.book, ret'.query) =>
         /\ ret'.wrote = {}
         /\ balances' = balances

C15_SnapshotWriteCondition == [][C15_Step]_vars

\* C16: snapshots monotone by transaction identifier.  The snapshot a
\* balance call writes names the largest identifier among the transactions
\* its aggregation included, and an identifier greater than that of the
\* snapshot the call started from, so that a snapshot with a larger
\* identifier covers every transaction a snapshot with a smaller one covers.
C16_Step ==
  ret'.op = "balance" /\ ret' # ret =>
    \A b \in ret'.wrote :
      /\ \A t \in Select(MatchFilter(ret'.book, ret'.query)) :
           t._id <= b.transaction
      /\ \A start \in StartSnapshot(ret'.book, ret'.query) :
           b.transaction > start.transaction

C16_SnapshotMonotone == [][C16_Step]_vars

\* the accounts a query asks for
AccountSet(query) == SeqToSet(query.account.paths)

\* C17: snapshot key isolation.  A balance call starts from a snapshot that
\* the call before it wrote only if the two calls have the same book, the
\* same set of accounts and the same metadata filter.
C17_Step ==
  /\ ret.op = "balance"
  /\ ret'.op = "balance"
  /\ StartSnapshot(ret'.book, ret'.query) \cap ret.wrote # {}
  => /\ ret'.book.name = ret.book.name
     /\ AccountSet(ret'.query) = AccountSet(ret.query)
     /\ FilterMeta(parseQuery(ret'.query, ret'.book))
          = FilterMeta(parseQuery(ret.query, ret.book))

C17_SnapshotKeyIsolation == [][C17_Step]_vars

\* the session is inside a writelockAccounts call
Locking(s) == sess[s].pc = "lock" /\ sess[s].toLock # <<>>

\* C18: no deadlock in the write-lock.  Every writelockAccounts call of
\* concurrent store transactions, whatever the order of their accounts,
\* eventually completes or fails with the transient error.
C18_NoDeadlock ==
  \A s \in Sessions : Locking(s) ~> ~Locking(s)

\* C18's case: each of two open transactions holds the lock document the
\* other one asks for next
C18_Witness ==
  /\ Locking("s1")
  /\ Locking("s2")
  /\ LockKey(sess["s1"].book, Head(sess["s1"].toLock)) \in sess["s2"].held
  /\ LockKey(sess["s2"].book, Head(sess["s2"].toLock)) \in sess["s1"].held

====
